---- MODULE Spec2Model ----
(***************************************************************************)
(* Model of blink_idl_diff: collect_idls_into_json.py (record extraction,  *)
(* partial merge, mixin merge, export) and the two get_operation_name      *)
(* implementations.                                                        *)
(*                                                                         *)
(* The external parser is represented by Corpus and parse_file: for every  *)
(* document of Tree the ordered list of top-level nodes the parser returns *)
(* for it.  A path is a sequence of one-character strings so that the path *)
(* normalisation and the character trim of get_filepath can be computed.   *)
(***************************************************************************)
EXTENDS Integers, Sequences, FiniteSets, TLC

VARIABLES pc, path_list, implement_nodes, interfaces_dict, partials_dict,
          idx, json_file, operation_node, operation_name

vars == <<pc, path_list, implement_nodes, interfaces_dict, partials_dict,
          idx, json_file, operation_node, operation_name>>

\* ------------------------------------------------------------------ bounds
\* Longest path list read from the path file.
MaxPaths == 4

\* ------------------------------------------------------- program constants
INTERFACE_CLASS_NAME == "Interface"

MEMBERS == <<"Attributes", "Operations", "Consts">>

\* The characters of '../chromium/src/third_party/WebKit'.
STRIP_FILEPATH ==
    <<".", ".", "/", "c", "h", "r", "o", "m", "i", "u", "m", "/", "s", "r",
      "c", "/", "t", "h", "i", "r", "d", "_", "p", "a", "r", "t", "y", "/",
      "W", "e", "b", "K", "i", "t">>

\* Python's None: the value of a property a node does not have.  It is
\* distinct from every string, also from the string 'None'.
None == <<>>

\* A Python str used as a property value.
Str(s) == <<s>>

\* bool(value) of a property value: None and '' are false.
Truthy(value) == value # None /\ value # Str("")

\* The working directory of the run, /h/t.
Cwd == <<"/", "h", "/", "t">>

\* os.path.relpath('') raises ValueError; no path has this element.
ValueError == <<"ValueError: no path specified">>

\* The empty mapping {}.
EmptyDict == [n \in {} |-> None]

\* The output path before export_to_jsonfile has written it.
NoFile == [exists |-> FALSE, content |-> EmptyDict]

\* --------------------------------------------------------------- raw nodes
ExtAttr(name) == [Class |-> "ExtAttribute", Name |-> name]

ConstNode(name, type, value) ==
    [Class |-> "Const", Name |-> name, Children |-> <<type, value>>,
     ExtAttributes |-> <<>>]

AttributeNode(name, type, readonly) ==
    [Class |-> "Attribute", Name |-> name, Type |-> type,
     ExtAttributes |-> <<>>, READONLY |-> readonly, STATIC |-> FALSE]

OperationNode(name, type, args, getter, setter, deleter) ==
    [Class |-> "Operation", Name |-> name, Type |-> type, Arguments |-> args,
     ExtAttributes |-> <<>>, GETTER |-> getter, SETTER |-> setter,
     DELETER |-> deleter, STATIC |-> FALSE]

ArgumentNode(name, type) == [Class |-> "Argument", Name |-> name, Type |-> type]

InterfaceNode(name, partial, consts, attrs, ops, ext, inherit) ==
    [Class |-> "Interface", Name |-> name, Partial |-> partial,
     Const |-> consts, Attribute |-> attrs,
     Operation |-> ops, ExtAttributes |-> ext, Inherit |-> inherit]

ImplementsNode(name, reference) ==
    [Class |-> "Implements", Name |-> name, REFERENCE |-> reference]

\* ------------------------------------------------- interface_node_path.py
\* The directory the walk starts from, ../W, and its one directory ../W/S.
WalkPath == <<".", ".", "/", "W">>
DirPath == <<".", ".", "/", "W", "/", "S">>

IdlSuffix == <<".", "i", "d", "l">>

\* non_idl_set
NonIdlSet == {<<"I", "n", "s", "p", "e", "c", "t", "o", "r", "I", "n", "s", "t", "r", "u", "m", "e", "n", "t", "a", "t", "i", "o", "n", ".", "i", "d", "l">>}

\* The file names os.walk finds in DirPath: documents 1 to 9 of Corpus, the
\* excluded InspectorInstrumentation.idl and two files that are not IDL.
FileNames ==
    <<<<"F", "o", "o", ".", "i", "d", "l">>,
      <<"F", "o", "o", "P", ".", "i", "d", "l">>,
      <<"F", "o", "o", "Q", ".", "i", "d", "l">>,
      <<"M", "i", "x", "i", "n", ".", "i", "d", "l">>,
      <<"F", "M", ".", "i", "d", "l">>,
      <<"M", "F", ".", "i", "d", "l">>,
      <<"F", "N", ".", "i", "d", "l">>,
      <<"F", "F", ".", "i", "d", "l">>,
      <<"M", "P", ".", "i", "d", "l">>,
      <<"I", "n", "s", "p", "e", "c", "t", "o", "r", "I", "n", "s", "t", "r", "u", "m", "e", "n", "t", "a", "t", "i", "o", "n", ".", "i", "d", "l">>,
      <<"F", "o", "o">>,
      <<"x", ".", "i", "d", "l", ".", "b", "a", "k">>>>

EndsWith(s, suffix) ==
    /\ Len(s) >= Len(suffix)
    /\ SubSeq(s, Len(s) - Len(suffix) + 1, Len(s)) = suffix

\* os.path.join(dir_path, file_name): an absolute file_name replaces
\* dir_path, and the separator is added only after a non-empty dir_path that
\* does not end in one.
Join(dir_path, file_name) ==
    IF file_name # <<>> /\ file_name[1] = "/" THEN file_name
    ELSE IF dir_path = <<>> \/ dir_path[Len(dir_path)] = "/"
         THEN dir_path \o file_name
    ELSE dir_path \o <<"/">> \o file_name

\* The paths get_idl_files(WalkPath) yields, in walk order.
get_idl_files ==
    LET keep == SelectSeq(FileNames,
                          LAMBDA f : EndsWith(f, IdlSuffix) /\ f \notin NonIdlSet)
    IN [i \in DOMAIN keep |-> Join(DirPath, keep[i])]

\* The lines a path file can hold: the paths the walk writes into it.
Paths == {get_idl_files[i] : i \in DOMAIN get_idl_files}

\* The top-level nodes of each document, in the order of FileNames.  A path
\* list that leaves out document 4 makes the fragment of document 9 an
\* orphan and the relations of documents 5 and 6 unresolvable.
Corpus ==
    <<  \* 1: [Exposed] interface Foo : Base { const long X = 1; attribute DOMString bar; }
        <<InterfaceNode("Foo", FALSE,
                        <<ConstNode("X", "long", "1")>>,
                        <<AttributeNode("bar", "DOMString", FALSE)>>,
                        <<>>, <<ExtAttr("Exposed")>>, <<"Base">>)>>,
        \* 2: [RuntimeEnabled] partial interface Foo { void baz(); }
        <<InterfaceNode("Foo", TRUE,
                        <<>>, <<>>,
                        <<OperationNode("baz", "void", <<>>, FALSE, FALSE, FALSE)>>,
                        <<ExtAttr("RuntimeEnabled")>>, <<>>)>>,
        \* 3: partial interface Foo : Other { const long Y = 2; getter long item(unsigned long index); }
        <<InterfaceNode("Foo", TRUE,
                        <<ConstNode("Y", "long", "2")>>, <<>>,
                        <<OperationNode("item", "long",
                                        <<ArgumentNode("index", "unsigned long")>>,
                                        TRUE, FALSE, FALSE)>>,
                        <<>>, <<"Other">>)>>,
        \* 4: interface Mixin { readonly attribute long qux; }
        <<InterfaceNode("Mixin", FALSE,
                        <<>>,
                        <<AttributeNode("qux", "long", TRUE)>>,
                        <<>>, <<>>, <<>>)>>,
        \* 5: Foo implements Mixin;
        <<ImplementsNode("Foo", Str("Mixin"))>>,
        \* 6: Mixin implements Foo;
        <<ImplementsNode("Mixin", Str("Foo"))>>,
        \* 7: an Implements node without a REFERENCE property
        <<ImplementsNode("Foo", None)>>,
        \* 8: Foo implements Foo;
        <<ImplementsNode("Foo", Str("Foo"))>>,
        \* 9: partial interface Mixin { deleter void remove(DOMString name); }
        <<InterfaceNode("Mixin", TRUE,
                        <<>>, <<>>,
                        <<OperationNode("remove", "void",
                                        <<ArgumentNode("name", "DOMString")>>,
                                        FALSE, FALSE, TRUE)>>,
                        <<>>, <<>>)>>
    >>

\* ------------------------------------------------------------- extraction
RECURSIVE Flatten(_)
Flatten(seqs) ==
    IF seqs = <<>> THEN <<>> ELSE Head(seqs) \o Flatten(Tail(seqs))

\* parse_file(parser, path).GetChildren(): the nodes of the document, each
\* carrying the path it was parsed from as FILENAME.
Documents == [i \in DOMAIN Corpus |-> Join(DirPath, FileNames[i])]

parse_file(path) ==
    LET doc == CHOOSE i \in DOMAIN Corpus : Documents[i] = path
    IN [k \in DOMAIN Corpus[doc] |-> Corpus[doc][k] @@ ("FILENAME" :> path)]

get_definitions(paths) == Flatten([i \in 1..Len(paths) |-> parse_file(paths[i])])

is_implements(definition) == definition.Class = "Implements"

filter_non_partial(definition) ==
    definition.Class = INTERFACE_CLASS_NAME /\ ~definition.Partial

filter_partial(definition) ==
    definition.Class = INTERFACE_CLASS_NAME /\ definition.Partial

StripChars == {STRIP_FILEPATH[i] : i \in DOMAIN STRIP_FILEPATH}

RECURSIVE LStrip(_, _)
LStrip(s, chars) ==
    IF s # <<>> /\ Head(s) \in chars THEN LStrip(Tail(s), chars) ELSE s

RECURSIVE RStrip(_, _)
RStrip(s, chars) ==
    IF s # <<>> /\ s[Len(s)] \in chars
    THEN RStrip(SubSeq(s, 1, Len(s) - 1), chars) ELSE s

\* str.strip(chars): trims characters of the set from both ends.
Strip(s, chars) == RStrip(LStrip(s, chars), chars)

\* str.split('/'): the components between the separators.
RECURSIVE SplitFrom(_, _, _)
SplitFrom(s, i, current) ==
    IF i > Len(s) THEN <<current>>
    ELSE IF s[i] = "/" THEN <<current>> \o SplitFrom(s, i + 1, <<>>)
    ELSE SplitFrom(s, i + 1, Append(current, s[i]))

Split(s) == SplitFrom(s, 1, <<>>)

RECURSIVE JoinComps(_)
JoinComps(comps) ==
    IF comps = <<>> THEN <<>>
    ELSE IF Len(comps) = 1 THEN comps[1]
    ELSE comps[1] \o <<"/">> \o JoinComps(Tail(comps))

\* The loop of posixpath.normpath over the components of an absolute path:
\* '' and '.' are dropped, '..' removes the component before it and is
\* dropped at the root.
RECURSIVE NormComps(_, _)
NormComps(comps, new_comps) ==
    IF comps = <<>> THEN new_comps
    ELSE LET comp == Head(comps)
         IN IF comp = <<>> \/ comp = <<".">>
            THEN NormComps(Tail(comps), new_comps)
            ELSE IF comp = <<".", ".">>
            THEN NormComps(Tail(comps),
                           IF new_comps = <<>> THEN <<>>
                           ELSE SubSeq(new_comps, 1, Len(new_comps) - 1))
            ELSE NormComps(Tail(comps), Append(new_comps, comp))

\* The components of os.path.abspath(path).
AbsComps(path) ==
    IF path # <<>> /\ path[1] = "/"
    THEN NormComps(Split(path), <<>>)
    ELSE NormComps(Split(Cwd \o <<"/">> \o path), <<>>)

RECURSIVE CommonPrefixLen(_, _)
CommonPrefixLen(a, b) ==
    IF a = <<>> \/ b = <<>> \/ Head(a) # Head(b) THEN 0
    ELSE 1 + CommonPrefixLen(Tail(a), Tail(b))

\* os.path.relpath(path) with start the working directory.
RelPath(path) ==
    IF path = <<>> THEN ValueError
    ELSE LET start_list == AbsComps(Cwd)
             path_list_ == AbsComps(path)
             i == CommonPrefixLen(start_list, path_list_)
             rel_list == [k \in 1..(Len(start_list) - i) |-> <<".", ".">>]
                         \o SubSeq(path_list_, i + 1, Len(path_list_))
         IN IF rel_list = <<>> THEN <<".">> ELSE JoinComps(rel_list)

\* A ValueError of relpath propagates out of get_filepath.
get_filepath(interface_node) ==
    IF RelPath(interface_node.FILENAME) = ValueError THEN ValueError
    ELSE Strip(RelPath(interface_node.FILENAME), StripChars)

extattr_node_to_dict(extattr) == [Name |-> extattr.Name]

ExtAttributesOf(node) ==
    [i \in 1..Len(node.ExtAttributes) |->
        extattr_node_to_dict(node.ExtAttributes[i])]

const_node_to_dict(const_node) ==
    [Name |-> const_node.Name,
     Type |-> const_node.Children[1],
     Value |-> const_node.Children[2],
     ExtAttributes |-> ExtAttributesOf(const_node)]

attribute_node_to_dict(attribute_node) ==
    [Name |-> attribute_node.Name,
     Type |-> attribute_node.Type,
     ExtAttributes |-> ExtAttributesOf(attribute_node),
     Readonly |-> attribute_node.READONLY,
     Static |-> attribute_node.STATIC]

argument_node_to_dict(argument_node) ==
    [Name |-> argument_node.Name, Type |-> argument_node.Type]

get_operation_name_nopriority(operation_node_) ==
    IF operation_node_.DELETER THEN "__deleter__"
    ELSE IF operation_node_.SETTER THEN "__setter__"
    ELSE IF operation_node_.GETTER THEN "__getter__"
    ELSE operation_node_.Name

get_operation_name(operation_node_) ==
    IF operation_node_.GETTER THEN "__getter__"
    ELSE IF operation_node_.SETTER THEN "__setter__"
    ELSE IF operation_node_.DELETER THEN "__deleter__"
    ELSE operation_node_.Name

\* interface_to_json.py's copy of the same function.
get_operation_name_i2j(operation) ==
    IF operation.GETTER THEN "__getter__"
    ELSE IF operation.SETTER THEN "__setter__"
    ELSE IF operation.DELETER THEN "__deleter__"
    ELSE operation.Name

operation_node_to_dict(operation_node_) ==
    [Name |-> get_operation_name(operation_node_),
     Arguments |-> [i \in 1..Len(operation_node_.Arguments) |->
                       argument_node_to_dict(operation_node_.Arguments[i])],
     Type |-> operation_node_.Type,
     ExtAttributes |-> ExtAttributesOf(operation_node_),
     Static |-> operation_node_.STATIC]

inherit_node_to_dict(inherit) == [Parent |-> inherit]

interface_node_to_dict(interface_node) ==
    [Name |-> interface_node.Name,
     FilePath |-> get_filepath(interface_node),
     Consts |-> [i \in 1..Len(interface_node.Const) |->
                    const_node_to_dict(interface_node.Const[i])],
     Attributes |-> [i \in 1..Len(interface_node.Attribute) |->
                        attribute_node_to_dict(interface_node.Attribute[i])],
     Operations |-> [i \in 1..Len(interface_node.Operation) |->
                        operation_node_to_dict(interface_node.Operation[i])],
     ExtAttributes |-> ExtAttributesOf(interface_node),
     Inherit |-> [i \in 1..Len(interface_node.Inherit) |->
                     inherit_node_to_dict(interface_node.Inherit[i])]]

\* ------------------------------------------------------------ dictionaries
\* {definition.GetName(): interface_node_to_dict(definition)
\*  for definition in nodes}, nodes being the definitions that pass the
\* comprehension's filter: a later definition with the same name replaces
\* the earlier entry.
DictComprehension(nodes) ==
    LET last(n) == CHOOSE i \in DOMAIN nodes :
                      /\ nodes[i].Name = n
                      /\ \A j \in DOMAIN nodes : nodes[j].Name = n => j <= i
    IN [n \in {nodes[i].Name : i \in DOMAIN nodes} |->
           interface_node_to_dict(nodes[last(n)])]

RECURSIVE ExtendMembers_replace(_, _, _)
ExtendMembers_replace(interface, other, members) ==
    IF members = <<>> THEN interface
    ELSE ExtendMembers_replace(
             [interface EXCEPT ![Head(members)] = other[Head(members)]],
             other, Tail(members))

\* for member in _MEMBERS: interface[member].extend(other.get(member))
RECURSIVE ExtendMembers(_, _, _)
ExtendMembers(interface, other, members) ==
    IF members = <<>> THEN interface
    ELSE ExtendMembers(
             [interface EXCEPT ![Head(members)] = @ \o other[Head(members)]],
             other, Tail(members))

\* interface.setdefault(key, []).append(value)
SetDefaultAppend(interface, key, value) ==
    IF key \in DOMAIN interface
    THEN [interface EXCEPT ![key] = Append(@, value)]
    ELSE interface @@ (key :> <<value>>)

merge_partial_item_orphan_kept(interfaces, interface_name, partial) ==
    IF interface_name \notin DOMAIN interfaces
    THEN interfaces @@ (interface_name :> partial)
    ELSE [interfaces EXCEPT ![interface_name] =
             SetDefaultAppend(ExtendMembers(@, partial, MEMBERS),
                              "Partial_FilePaths", partial.FilePath)]

merge_partial_item_own_path(interfaces, interface_name, partial) ==
    IF interface_name \notin DOMAIN interfaces
    THEN interfaces
    ELSE [interfaces EXCEPT ![interface_name] =
             SetDefaultAppend(ExtendMembers(@, partial, MEMBERS),
                              "Partial_FilePaths", @.FilePath)]

merge_partial_item_ext(interfaces, interface_name, partial) ==
    IF interface_name \notin DOMAIN interfaces
    THEN interfaces
    ELSE [interfaces EXCEPT ![interface_name] =
             SetDefaultAppend(
                 ExtendMembers(@, partial, MEMBERS \o <<"ExtAttributes">>),
                 "Partial_FilePaths", partial.FilePath)]

\* One iteration of the loop of merge_partial_dicts.
merge_partial_item(interfaces, interface_name, partial) ==
    IF interface_name \notin DOMAIN interfaces
    THEN interfaces
    ELSE [interfaces EXCEPT ![interface_name] =
             SetDefaultAppend(ExtendMembers(@, partial, MEMBERS),
                              "Partial_FilePaths", partial.FilePath)]

RECURSIVE MergePartialOver(_, _, _)
MergePartialOver(interfaces, partials, keys) ==
    IF keys = {} THEN interfaces
    ELSE LET interface_name == CHOOSE k \in keys : TRUE
         IN MergePartialOver(
                merge_partial_item(interfaces, interface_name,
                                   partials[interface_name]),
                partials, keys \ {interface_name})

merge_partial_dicts(interfaces, partials) ==
    MergePartialOver(interfaces, partials, DOMAIN partials)

merge_implement_both(interfaces, implement) ==
    [n \in DOMAIN interfaces |->
        IF n \in {implement.Name, implement.REFERENCE[1]}
        THEN ExtendMembers(interfaces[n], interfaces[implement.REFERENCE[1]], MEMBERS)
        ELSE interfaces[n]]

\* The body of the loop of merge_implement_node for a relation whose names
\* are both keys of the registry.
merge_implement(interfaces, implement) ==
    [interfaces EXCEPT ![implement.Name] =
        ExtendMembers(@, interfaces[implement.REFERENCE[1]], MEMBERS)]

\* ------------------------------------------------------------------- main
MainSequence_mixin_first ==
    <<"collect", "merge_implement_node", "merge_partial_dicts",
      "export_to_jsonfile", "done">>

\* The statements of main, in program order.
MainSequence ==
    <<"collect", "merge_partial_dicts", "merge_implement_node",
      "export_to_jsonfile", "done">>

After(stage) ==
    MainSequence[(CHOOSE i \in DOMAIN MainSequence : MainSequence[i] = stage) + 1]

\* The path files main can read: up to MaxPaths lines, each a path of the
\* walk; a line may be repeated.
PathLists == UNION {[1..n -> Paths] : n \in 0..MaxPaths}

Init ==
    /\ pc = MainSequence[1]
    /\ path_list \in PathLists
    /\ implement_nodes = <<>>
    /\ interfaces_dict = EmptyDict
    /\ partials_dict = EmptyDict
    /\ idx = 1
    /\ json_file = NoFile
    /\ operation_node = None
    /\ operation_name = None

\* The three passes over the parsed definitions.
Collect ==
    /\ pc = "collect"
    \* relpath raises ValueError for an empty FILENAME; the parser sets
    \* FILENAME to the path it opened, which is never empty.
    /\ \A i \in DOMAIN get_definitions(path_list) :
          get_definitions(path_list)[i].FILENAME # <<>>
    /\ implement_nodes' = SelectSeq(get_definitions(path_list), is_implements)
    /\ interfaces_dict' =
           DictComprehension(SelectSeq(get_definitions(path_list),
                                       filter_non_partial))
    /\ partials_dict' =
           DictComprehension(SelectSeq(get_definitions(path_list),
                                       filter_partial))
    /\ pc' = After("collect")
    /\ UNCHANGED <<path_list, idx, json_file, operation_node, operation_name>>

MergePartialDicts ==
    /\ pc = "merge_partial_dicts"
    /\ interfaces_dict' = merge_partial_dicts(interfaces_dict, partials_dict)
    /\ pc' = After("merge_partial_dicts")
    /\ UNCHANGED <<path_list, implement_nodes, partials_dict, idx, json_file,
                   operation_node, operation_name>>

\* if not reference: continue
MergeImplementSkip ==
    /\ pc = "merge_implement_node"
    /\ idx <= Len(implement_nodes)
    /\ ~Truthy(implement_nodes[idx].REFERENCE)
    /\ idx' = idx + 1
    /\ UNCHANGED <<pc, path_list, implement_nodes, interfaces_dict,
                   partials_dict, json_file, operation_node, operation_name>>

MergeImplementExtend ==
    /\ pc = "merge_implement_node"
    /\ idx <= Len(implement_nodes)
    /\ Truthy(implement_nodes[idx].REFERENCE)
    /\ implement_nodes[idx].Name \in DOMAIN interfaces_dict
    /\ implement_nodes[idx].REFERENCE[1] \in DOMAIN interfaces_dict
    /\ interfaces_dict' = merge_implement(interfaces_dict, implement_nodes[idx])
    /\ idx' = idx + 1
    /\ UNCHANGED <<pc, path_list, implement_nodes, partials_dict, json_file,
                   operation_node, operation_name>>

MergeImplementKeyErrorIgnored ==
    /\ pc = "merge_implement_node"
    /\ idx <= Len(implement_nodes)
    /\ Truthy(implement_nodes[idx].REFERENCE)
    /\ \/ implement_nodes[idx].Name \notin DOMAIN interfaces_dict
       \/ implement_nodes[idx].REFERENCE[1] \notin DOMAIN interfaces_dict
    /\ idx' = idx + 1
    /\ UNCHANGED <<pc, path_list, implement_nodes, interfaces_dict,
                   partials_dict, json_file, operation_node, operation_name>>

\* interfaces_dict[implement] or interfaces_dict[reference] raises KeyError
\* before the first extend; nothing catches it.
MergeImplementKeyError ==
    /\ pc = "merge_implement_node"
    /\ idx <= Len(implement_nodes)
    /\ Truthy(implement_nodes[idx].REFERENCE)
    /\ \/ implement_nodes[idx].Name \notin DOMAIN interfaces_dict
       \/ implement_nodes[idx].REFERENCE[1] \notin DOMAIN interfaces_dict
    /\ pc' = "KeyError"
    /\ UNCHANGED <<path_list, implement_nodes, interfaces_dict, partials_dict,
                   idx, json_file, operation_node, operation_name>>

MergeImplementReturn ==
    /\ pc = "merge_implement_node"
    /\ idx > Len(implement_nodes)
    /\ pc' = After("merge_implement_node")
    /\ UNCHANGED <<path_list, implement_nodes, interfaces_dict, partials_dict,
                   idx, json_file, operation_node, operation_name>>

\* dictionary and interfaces_dict name the same object, so the file holds
\* the registry as it is when export_to_jsonfile runs.
ExportToJsonfile ==
    /\ pc = "export_to_jsonfile"
    /\ json_file' = [exists |-> TRUE, content |-> interfaces_dict]
    /\ pc' = After("export_to_jsonfile")
    /\ UNCHANGED <<path_list, implement_nodes, interfaces_dict, partials_dict,
                   idx, operation_node, operation_name>>

Next ==
    \/ Collect
    \/ MergePartialDicts
    \/ MergeImplementSkip
    \/ MergeImplementExtend
    \/ MergeImplementKeyError
    \/ MergeImplementReturn
    \/ ExportToJsonfile

Spec == Init /\ [][Next]_vars

\* ------------------------------------------- get_operation_name in isolation
OperationNames == {"item", "namedItem", "remove", "baz", "toString"}

OperationNodes ==
    {OperationNode(n, "void", <<>>, g, s, d) :
        n \in OperationNames, g \in BOOLEAN, s \in BOOLEAN, d \in BOOLEAN}

InitOp ==
    /\ pc = "get_operation_name"
    /\ operation_node \in OperationNodes
    /\ operation_name = None
    /\ path_list = <<>>
    /\ implement_nodes = <<>>
    /\ interfaces_dict = EmptyDict
    /\ partials_dict = EmptyDict
    /\ idx = 1
    /\ json_file = NoFile

GetOperationName ==
    /\ pc = "get_operation_name"
    /\ operation_name' = get_operation_name(operation_node)
    /\ pc' = "collect_idls_into_json"
    /\ UNCHANGED <<path_list, implement_nodes, interfaces_dict, partials_dict,
                   idx, json_file, operation_node>>

GetOperationNameI2J ==
    /\ pc = "get_operation_name"
    /\ operation_name' = get_operation_name_i2j(operation_node)
    /\ pc' = "interface_to_json"
    /\ UNCHANGED <<path_list, implement_nodes, interfaces_dict, partials_dict,
                   idx, json_file, operation_node>>

NextOp == GetOperationName \/ GetOperationNameI2J

SpecOp == InitOp /\ [][NextOp]_vars

\* ================================================================ properties
Definitions == get_definitions(path_list)

MemberKinds == {"Consts", "Attributes", "Operations"}

IsPrefix(s, t) == Len(s) <= Len(t) /\ SubSeq(t, 1, Len(s)) = s

\* Names of the non-partial interfaces of the input.
NonPartialNames ==
    LET defs == Definitions
    IN {defs[i].Name :
           i \in {j \in DOMAIN defs :
                     defs[j].Class = "Interface" /\ ~defs[j].Partial}}

\* The non-partial declaration of n (every document declares it alike).
OwnNode(n) ==
    LET defs == Definitions
    IN defs[CHOOSE i \in DOMAIN defs :
                /\ defs[i].Class = "Interface"
                /\ ~defs[i].Partial
                /\ defs[i].Name = n]

\* The partial fragments of the input that carry the name n, in input order.
Fragments(n) ==
    SelectSeq(Definitions,
              LAMBDA d : d.Class = "Interface" /\ d.Partial /\ d.Name = n)

\* The relations of the input, in input order.
Relations == SelectSeq(Definitions, LAMBDA d : d.Class = "Implements")

\* The members of kind m a declaration contributes.
MembersOf(node, m) == interface_node_to_dict(node)[m]

RECURSIVE ConcatMembers(_, _)
ConcatMembers(nodes, m) ==
    IF nodes = <<>> THEN <<>>
    ELSE MembersOf(Head(nodes), m) \o ConcatMembers(Tail(nodes), m)

\* The state in which merge_partial_dicts has just returned.
AfterPartialMerge == pc = "merge_implement_node" /\ idx = 1

\* The registry as it is when merge_implement_node starts.
PreMixin ==
    merge_partial_dicts(
        DictComprehension(SelectSeq(Definitions, filter_non_partial)),
        DictComprehension(SelectSeq(Definitions, filter_partial)))

\* The members of kind m of the references of the relations in rels that
\* have target n, taken from the registry reg, in relation order.
RECURSIVE ReferencedMembers(_, _, _, _)
ReferencedMembers(rels, n, m, reg) ==
    IF rels = <<>> THEN <<>>
    ELSE (IF Head(rels).Name = n /\ Truthy(Head(rels).REFERENCE)
          THEN reg[Head(rels).REFERENCE[1]][m] ELSE <<>>)
         \o ReferencedMembers(Tail(rels), n, m, reg)

Unresolvable(implement) ==
    /\ Truthy(implement.REFERENCE)
    /\ \/ implement.Name \notin DOMAIN interfaces_dict
       \/ implement.REFERENCE[1] \notin DOMAIN interfaces_dict

\* C1: after the partial collection and merge_partial_dicts, each member list
\* of every non-partial interface equals its own members followed by the
\* members of all of its fragments F1..Fn in input order.
C1_MergeCompleteness ==
    AfterPartialMerge =>
        \A n \in DOMAIN interfaces_dict : \A m \in MemberKinds :
            interfaces_dict[n][m] =
                MembersOf(OwnNode(n), m) \o ConcatMembers(Fragments(n), m)

\* C2: after merge_implement_node, each member list of a target A equals A's
\* list before the mixin merge followed by the lists its references had
\* before the mixin merge started, whatever the order of the relations.
C2_MixinNotChained ==
    pc = "export_to_jsonfile" =>
        \A n \in DOMAIN interfaces_dict : \A m \in MemberKinds :
            interfaces_dict[n][m] =
                PreMixin[n][m] \o ReferencedMembers(Relations, n, m, PreMixin)

\* C3: a fragment whose name matches no non-partial interface raises nothing,
\* adds no key and changes no record; the registry's keys, and those of the
\* exported registry, are exactly the names of the non-partial interfaces.
C3_OrphanPartialTolerance ==
    [][/\ pc = "merge_partial_dicts" =>
            /\ pc' = After("merge_partial_dicts")
            /\ DOMAIN interfaces_dict' = DOMAIN interfaces_dict
            /\ \A k \in DOMAIN partials_dict \ DOMAIN interfaces_dict :
                   merge_partial_item(interfaces_dict, k, partials_dict[k])
                       = interfaces_dict
            /\ (DOMAIN partials_dict \cap DOMAIN interfaces_dict = {}
                   => interfaces_dict' = interfaces_dict)
       /\ LET names == NonPartialNames
          IN /\ pc' # "collect" => DOMAIN interfaces_dict' = names
             /\ json_file'.exists => DOMAIN json_file'.content = names
      ]_vars

C3_Witness ==
    /\ pc = "done"
    /\ json_file.exists
    /\ DOMAIN json_file.content # {}
    /\ \E k \in DOMAIN partials_dict : k \notin DOMAIN json_file.content

\* C4: a relation with a non-empty reference whose target or reference is
\* not a registry key ends merge_implement_node with KeyError at that
\* relation: the registry is left as it was, no later relation is processed,
\* nothing runs afterwards and no output is written in that run.
C4_UnresolvableMixinFatal ==
    [][/\ (/\ pc = "merge_implement_node"
           /\ idx <= Len(implement_nodes)
           /\ Unresolvable(implement_nodes[idx]))
          => /\ pc' = "KeyError"
             /\ idx' = idx
             /\ interfaces_dict' = interfaces_dict
       /\ pc # "KeyError"
       /\ \A i \in DOMAIN implement_nodes' :
             (pc' # "collect" /\ Unresolvable(implement_nodes[i])')
                => /\ idx' <= i
                   /\ json_file' = NoFile
                   /\ pc' \notin {"export_to_jsonfile", "done"}
      ]_vars

C4_Witness ==
    /\ pc = "KeyError"
    /\ idx < Len(implement_nodes)
    /\ json_file = NoFile

\* The end-to-end scenario for the interface n: one fragment, one relation
\* 'n implements r' with r another interface of the registry that is not
\* itself the target of a relation and has at most one fragment.
Scenario(n, r) ==
    /\ n \in NonPartialNames /\ r \in NonPartialNames /\ n # r
    /\ Len(Fragments(n)) = 1
    /\ Len(Fragments(r)) <= 1
    /\ LET rels == Relations
       IN \E i \in DOMAIN rels :
             /\ rels[i].Name = n /\ rels[i].REFERENCE = Str(r)
             /\ \A j \in DOMAIN rels :
                   /\ rels[j].Name = n => j = i
                   /\ rels[j].Name # r

\* C5: the partial merger has run to completion before the mixin merger
\* starts, and the exported registry is the registry after both merges: in
\* the scenario each exported member list of n is n's own members, then the
\* fragment's, then r's, and the partial file paths hold the fragment's path.
C5_PipelineOrder ==
    [][/\ (pc' = "merge_implement_node" /\ pc # pc')
          => /\ pc = "merge_partial_dicts"
             /\ idx' = 1
       /\ pc = "merge_partial_dicts" => (idx = 1 /\ json_file = NoFile)
       /\ pc = "merge_implement_node" =>
             pc' \in {"merge_implement_node", "KeyError", "export_to_jsonfile"}
       /\ pc' = "done" =>
             /\ json_file' = [exists |-> TRUE, content |-> interfaces_dict']
             /\ \A n, r \in DOMAIN json_file'.content :
                   Scenario(n, r)' =>
                      /\ \A m \in MemberKinds :
                            json_file'.content[n][m] =
                                MembersOf(OwnNode(n)', m)
                                \o ConcatMembers(Fragments(n)', m)
                                \o MembersOf(OwnNode(r)', m)
                                \o ConcatMembers(Fragments(r)', m)
                      /\ "Partial_FilePaths" \in DOMAIN json_file'.content[n]
                      /\ \E i \in DOMAIN json_file'.content[n].Partial_FilePaths :
                            json_file'.content[n].Partial_FilePaths[i] =
                                get_filepath(Fragments(n)'[1])
      ]_vars

C5_Witness ==
    /\ pc = "done"
    /\ "Foo" \in DOMAIN json_file.content /\ "Mixin" \in DOMAIN json_file.content
    /\ Scenario("Foo", "Mixin")
    /\ Len(json_file.content["Foo"].Consts) = 1
    /\ Len(json_file.content["Foo"].Attributes) = 2
    /\ json_file.content["Foo"].Attributes[1].Name = "bar"
    /\ json_file.content["Foo"].Attributes[2].Name = "qux"
    /\ Len(json_file.content["Foo"].Operations) = 1
    /\ json_file.content["Foo"].Operations[1].Name = "baz"

\* C6: a step of merge_implement_node changes nothing but the Consts,
\* Attributes and Operations of the target of the relation it processes.
C6_MixinMergeFrame ==
    [][pc = "merge_implement_node" =>
          /\ DOMAIN interfaces_dict' = DOMAIN interfaces_dict
          /\ \A n \in DOMAIN interfaces_dict :
                /\ DOMAIN interfaces_dict'[n] = DOMAIN interfaces_dict[n]
                /\ \A f \in DOMAIN interfaces_dict[n] :
                      interfaces_dict'[n][f] # interfaces_dict[n][f]
                         => /\ idx <= Len(implement_nodes)
                            /\ n = implement_nodes[idx].Name
                            /\ f \in MemberKinds
      ]_vars

C6_Witness ==
    /\ pc = "merge_implement_node"
    /\ idx > 1
    /\ Truthy(implement_nodes[idx - 1].REFERENCE)
    /\ implement_nodes[idx - 1].REFERENCE # Str(implement_nodes[idx - 1].Name)
    /\ interfaces_dict # PreMixin

\* C7 as stated: after merge_partial_dicts every record has a partial file
\* path list, holding the FilePath of each fragment merged into it, and the
\* list is present and empty when there is none.
C7_PartialProvenanceAlwaysPresent ==
    AfterPartialMerge =>
        \A n \in DOMAIN interfaces_dict :
            /\ "Partial_FilePaths" \in DOMAIN interfaces_dict[n]
            /\ interfaces_dict[n].Partial_FilePaths =
                   IF n \in DOMAIN partials_dict
                   THEN <<partials_dict[n].FilePath>> ELSE <<>>

\* C7 amended: after merge_partial_dicts a record into which a fragment was
\* merged has a partial file path list holding exactly that fragment's
\* FilePath, and a record with no fragment has no such list at all.
C7_PartialProvenance ==
    AfterPartialMerge =>
        \A n \in DOMAIN interfaces_dict :
            IF Fragments(n) # <<>>
            THEN /\ "Partial_FilePaths" \in DOMAIN interfaces_dict[n]
                 /\ interfaces_dict[n].Partial_FilePaths =
                        <<get_filepath(Fragments(n)[Len(Fragments(n))])>>
            ELSE "Partial_FilePaths" \notin DOMAIN interfaces_dict[n]

C7_Witness ==
    /\ AfterPartialMerge
    /\ \E n, k \in DOMAIN interfaces_dict :
          /\ Fragments(n) # <<>>
          /\ "Partial_FilePaths" \in DOMAIN interfaces_dict[n]
          /\ Fragments(k) = <<>>

\* C8: every partial-merge and mixin-merge step leaves the old value of each
\* member list as a prefix of the new one, and merge_partial_dicts applied
\* again to its own result appends the fragment's members a second time.
C8_AppendOnly ==
    [][/\ pc \in {"merge_partial_dicts", "merge_implement_node"} =>
             \A n \in DOMAIN interfaces_dict :
                /\ n \in DOMAIN interfaces_dict'
                /\ \A m \in MemberKinds :
                      IsPrefix(interfaces_dict[n][m], interfaces_dict'[n][m])
       /\ pc = "merge_partial_dicts" =>
             LET again == merge_partial_dicts(interfaces_dict', partials_dict)
             IN \A n \in DOMAIN interfaces_dict : \A m \in MemberKinds :
                   again[n][m] =
                       IF n \in DOMAIN partials_dict
                       THEN interfaces_dict[n][m]
                            \o partials_dict[n][m] \o partials_dict[n][m]
                       ELSE interfaces_dict[n][m]
      ]_vars

C8_Witness ==
    /\ pc = "done"
    /\ \E i \in DOMAIN implement_nodes :
          /\ Str(implement_nodes[i].Name) = implement_nodes[i].REFERENCE
          /\ implement_nodes[i].Name \in DOMAIN partials_dict
          /\ \E m \in MemberKinds :
                Len(json_file.content[implement_nodes[i].Name][m]) >= 4

\* C9: both get_operation_name functions return '__getter__' when GETTER is
\* set, else '__setter__' when SETTER is set, else '__deleter__' when DELETER
\* is set, else the declared name, which is never returned with a flag set.
C9_SentinelNaming ==
    pc \in {"collect_idls_into_json", "interface_to_json"} =>
        /\ operation_node.GETTER => operation_name = "__getter__"
        /\ (~operation_node.GETTER /\ operation_node.SETTER)
              => operation_name = "__setter__"
        /\ (~operation_node.GETTER /\ ~operation_node.SETTER
              /\ operation_node.DELETER) => operation_name = "__deleter__"
        /\ (~operation_node.GETTER /\ ~operation_node.SETTER
              /\ ~operation_node.DELETER)
              => operation_name = operation_node.Name
        /\ (operation_node.GETTER \/ operation_node.SETTER
              \/ operation_node.DELETER)
              => operation_name # operation_node.Name

C9_Witness ==
    /\ pc = "collect_idls_into_json"
    /\ operation_node.GETTER /\ operation_node.SETTER /\ operation_node.DELETER
    /\ operation_name = "__getter__"

\* C10: merging the fragments leaves the ExtAttributes, Inherit, Name and
\* FilePath of every record as they were, and the merge of one fragment
\* leaves the records of all other names unchanged.
C10_PartialMergeFrame ==
    [][pc = "merge_partial_dicts" =>
          /\ \A n \in DOMAIN interfaces_dict :
                /\ n \in DOMAIN interfaces_dict'
                /\ \A f \in {"ExtAttributes", "Inherit", "Name", "FilePath"} :
                      interfaces_dict'[n][f] = interfaces_dict[n][f]
                /\ n \notin DOMAIN partials_dict
                      => interfaces_dict'[n] = interfaces_dict[n]
          /\ \A k \in DOMAIN partials_dict : \A n \in DOMAIN interfaces_dict :
                n # k =>
                   merge_partial_item(interfaces_dict, k, partials_dict[k])[n]
                       = interfaces_dict[n]
      ]_vars

C10_Witness ==
    /\ AfterPartialMerge
    /\ Cardinality(DOMAIN interfaces_dict) >= 2
    /\ \E n \in DOMAIN interfaces_dict :
          /\ n \in DOMAIN partials_dict
          /\ partials_dict[n].ExtAttributes # <<>>
          /\ partials_dict[n].ExtAttributes # interfaces_dict[n].ExtAttributes
          /\ "Partial_FilePaths" \in DOMAIN interfaces_dict[n]

====
